---- MODULE Spec2Model ----
(***************************************************************************)
(* Model of laghos_qupdate.cpp: the quadrature-data update of Laghos       *)
(* (QUpdate::UpdateQuadratureData2D), its basis-evaluation kernels         *)
(* (vecToQuad2D, qGradVector2D), the per-point physics kernel (QUpdate2D)  *)
(* and the dense 2x2 micro-kernels they call.                              *)
(*                                                                         *)
(* Numbers.  A double is modelled as an extended rational <<n, d>>:        *)
(*   d > 0   the finite value n/d, in lowest terms;                        *)
(*   <<1,0>> +infinity, <<-1,0>> -infinity, <<0,0>> NaN.                   *)
(* The arithmetic follows IEEE-754 for the special values (x/0, inf-inf,   *)
(* 0*inf, comparisons with NaN are false, fmin/fmax skip a NaN operand).   *)
(* Rounding of finite results and the sign of zero are not modelled; sqrt  *)
(* is exact on perfect squares and rounded down to 1/SqrtRes otherwise.    *)
(***************************************************************************)
EXTENDS Integers, Sequences, FiniteSets, TLC

\* ------------------------------------------------------------------------
\* Extended rational arithmetic (the model of `double`)
\* ------------------------------------------------------------------------
Abs(i) == IF i < 0 THEN -i ELSE i

Sign(i) == IF i < 0 THEN -1 ELSE IF i > 0 THEN 1 ELSE 0

RECURSIVE Gcd(_, _)
Gcd(a, b) == IF b = 0 THEN a ELSE Gcd(b, a % b)

\* n/d with d # 0, brought to lowest terms with a positive denominator.
Norm(n, d) ==
  LET g == Gcd(Abs(n), Abs(d))
      s == IF d < 0 THEN -1 ELSE 1
  IN  <<s * (n \div g), s * (d \div g)>>

R(i) == <<i, 1>>

Q(n, d) == Norm(n, d)

NaN == <<0, 0>>

Inf == <<1, 0>>

NegInf == <<-1, 0>>

IsNaN(a) == a = NaN

IsFin(a) == a[2] > 0

IsInf(a) == a[2] = 0 /\ a[1] # 0

IsZero(a) == a[2] > 0 /\ a[1] = 0

Sgn(a) == Sign(a[1])

Neg(a) == <<-a[1], a[2]>>

Add(a, b) ==
  IF IsNaN(a) \/ IsNaN(b) THEN NaN
  ELSE IF IsInf(a) THEN (IF IsInf(b) /\ b # a THEN NaN ELSE a)
  ELSE IF IsInf(b) THEN b
  ELSE IF a[2] = b[2] THEN (IF a[2] = 1 THEN <<a[1] + b[1], 1>> ELSE Norm(a[1] + b[1], a[2]))
  ELSE Norm(a[1] * b[2] + b[1] * a[2], a[2] * b[2])

Sub(a, b) == Add(a, Neg(b))

Mul(a, b) ==
  IF IsNaN(a) \/ IsNaN(b) THEN NaN
  ELSE IF IsInf(a) \/ IsInf(b)
       THEN (IF IsZero(a) \/ IsZero(b) THEN NaN ELSE <<Sgn(a) * Sgn(b), 0>>)
  ELSE IF a[1] = 0 \/ b[1] = 0 THEN <<0, 1>>
  ELSE IF a[2] = 1 /\ b[2] = 1 THEN <<a[1] * b[1], 1>>
  ELSE Norm(a[1] * b[1], a[2] * b[2])

\* a / b; a finite nonzero value over zero is an infinity, 0/0 and inf/inf NaN.
Div(a, b) ==
  IF IsNaN(a) \/ IsNaN(b) THEN NaN
  ELSE IF IsInf(a) THEN (IF IsInf(b) THEN NaN
                         ELSE IF IsZero(b) THEN a ELSE <<Sgn(a) * Sgn(b), 0>>)
  ELSE IF IsInf(b) THEN R(0)
  ELSE IF IsZero(b) THEN (IF IsZero(a) THEN NaN ELSE <<Sgn(a), 0>>)
  ELSE Norm(a[1] * b[2], a[2] * b[1])

\* a < b; false when either is NaN.  Finite values are compared by integer
\* part first so that a large constant never overflows a cross product.
Lt(a, b) ==
  /\ ~IsNaN(a)
  /\ ~IsNaN(b)
  /\ a # b
  /\ \/ a = NegInf
     \/ b = Inf
     \/ /\ IsFin(a)
        /\ IsFin(b)
        /\ LET fa == a[1] \div a[2]
               fb == b[1] \div b[2]
           IN  \/ fa < fb
               \/ fa = fb /\ (a[1] % a[2]) * b[2] < (b[1] % b[2]) * a[2]

Gt(a, b) == Lt(b, a)

Le(a, b) == ~IsNaN(a) /\ ~IsNaN(b) /\ (a = b \/ Lt(a, b))

\* fmin / fmax of <cmath>: a NaN operand yields the other operand.
Fmin(a, b) == IF IsNaN(a) THEN b ELSE IF IsNaN(b) THEN a ELSE IF Lt(b, a) THEN b ELSE a

Fmax(a, b) == IF IsNaN(a) THEN b ELSE IF IsNaN(b) THEN a ELSE IF Lt(a, b) THEN b ELSE a

Fabs(a) == <<Abs(a[1]), a[2]>>

\* Resolution of a square root that is not a perfect square.
SqrtRes == 8

\* Integer square root by bisection: lo*lo <= n < hi*hi throughout.
RECURSIVE IsqrtIn(_, _, _)
IsqrtIn(n, lo, hi) ==
  IF hi - lo <= 1 THEN lo
  ELSE LET mid == (lo + hi) \div 2
       IN  IF mid * mid <= n THEN IsqrtIn(n, mid, hi) ELSE IsqrtIn(n, lo, mid)

Isqrt(n) == IsqrtIn(n, 0, IF n < 46340 THEN n + 1 ELSE 46341)

IsSquare(n) == Isqrt(n) * Isqrt(n) = n

Sqrt(a) ==
  IF IsNaN(a) THEN NaN
  ELSE IF a = Inf THEN Inf
  ELSE IF Sgn(a) < 0 THEN NaN
  ELSE IF IsSquare(a[1]) /\ IsSquare(a[2]) THEN <<Isqrt(a[1]), Isqrt(a[2])>>
  ELSE Norm(Isqrt(a[1] * a[2] * SqrtRes * SqrtRes), a[2] * SqrtRes)

\* ------------------------------------------------------------------------
\* Dense micro-kernels.  A 2x2 matrix is a function on 0..3, a 2-vector a
\* function on 0..1, indexed as the C arrays are.
\* ------------------------------------------------------------------------
dim == 2

Mat4(a, b, c, d) == [k \in 0..3 |-> CASE k = 0 -> a [] k = 1 -> b [] k = 2 -> c [] OTHER -> d]

Vec2(a, b) == [k \in 0..1 |-> IF k = 0 THEN a ELSE b]

\* C[i + j*ah] = sum_k A[i + k*ah] * B[j + k*bh]   (C = A * B^t)
multABt(A, B) ==
  [idx \in 0..3 |->
     LET i == idx % dim
         j == idx \div dim
     IN  Add(Add(R(0), Mul(A[i], B[j])), Mul(A[i + dim], B[j + dim]))]

\* A[i + j*ah] = sum_k B[i + k*ah] * C[k + j*bw]   (A = B * C)
mult(B, C) ==
  [idx \in 0..3 |->
     LET i == idx % dim
         j == idx \div dim
     IN  Add(Add(R(0), Mul(B[i], C[j * dim])), Mul(B[i + dim], C[1 + j * dim]))]

\* y[row] = sum_col x[col] * data[row + col*height]
multV(data, x) ==
  [row \in 0..1 |-> Add(Mul(x[0], data[row]), Mul(x[1], data[row + dim]))]

\* D[i*width + j] += c * A[i*width + j]
add(c, A, D) == [k \in 0..3 |-> Add(D[k], Mul(c, A[k]))]

\* One pass of norml2's loop body over data[i], on the running (scale, sum).
norml2Step(acc, x) ==
  IF x # R(0)
  THEN LET absdata == Fabs(x)
       IN  IF Le(acc.scale, absdata)
           THEN LET sqr_arg == Div(acc.scale, absdata)
                IN  [scale |-> absdata,
                     sum |-> Add(R(1), Mul(acc.sum, Mul(sqr_arg, sqr_arg)))]
           ELSE LET sqr_arg == Div(absdata, acc.scale)
                IN  [scale |-> acc.scale, sum |-> Add(acc.sum, Mul(sqr_arg, sqr_arg))]
  ELSE acc

norml2(data) ==
  LET a0 == [scale |-> R(0), sum |-> R(0)]
      a1 == norml2Step(a0, data[0])
      a2 == norml2Step(a1, data[1])
  IN  Mul(a2.scale, Sqrt(a2.sum))

det2D(d) == Sub(Mul(d[0], d[3]), Mul(d[1], d[2]))

\* The inverse is computed without any test of the determinant.
\* An inverse that is taken only of a matrix of positive determinant and
\* is the zero matrix otherwise.
calcInverse2DGuarded(a) ==
  LET d == det2D(a)
      t == Div(R(1), d)
  IN  IF Gt(d, R(0))
      THEN Mat4(Mul(a[3], t), Mul(Neg(a[1]), t), Mul(Neg(a[2]), t), Mul(a[0], t))
      ELSE Mat4(R(0), R(0), R(0), R(0))

calcInverse2D(a) ==
  LET d == det2D(a)
      t == Div(R(1), d)
  IN  Mat4(Mul(a[3], t), Mul(Neg(a[1]), t), Mul(Neg(a[2]), t), Mul(a[0], t))

symmetrize(d) ==
  LET a == Mul(Q(1, 2), Add(d[2], d[1]))
  IN  Mat4(d[0], a, a, d[3])

cpysign(x, y) ==
  IF (Lt(x, R(0)) /\ Gt(y, R(0))) \/ (Gt(x, R(0)) /\ Lt(y, R(0))) THEN Neg(x) ELSE x

\* sqrt(1./epsilon) with epsilon = 1.e-16
sqrt_1_eps == R(100000000)

\* t of the Jacobi rotation from zeta (lines 234-241).
eigenTangent(zeta) ==
  IF Lt(Fabs(zeta), sqrt_1_eps)
  THEN cpysign(Div(R(1), Add(Fabs(zeta), Sqrt(Add(R(1), Mul(zeta, zeta))))), zeta)
  ELSE cpysign(Div(Q(1, 2), Fabs(zeta)), zeta)

\* c, s and the shifted d1, d2 from t (lines 242-246).
eigenRotate(d12, d1, d2, t) ==
  LET c == Sqrt(Div(R(1), Add(R(1), Mul(t, t))))
  IN  [d1 |-> Sub(d1, Mul(t, d12)), d2 |-> Add(d2, Mul(t, d12)), c |-> c, s |-> Mul(c, t)]

eigensystem2S(d12, d1, d2) ==
  IF d12 = R(0)
  THEN [d1 |-> d1, d2 |-> d2, c |-> R(1), s |-> R(0)]
  ELSE eigenRotate(d12, d1, d2, eigenTangent(Div(Sub(d2, d1), Mul(R(2), d12))))

\* The ordering of the eigenpairs after eigensystem2S (lines 261-278).
eigenOrder(r) ==
  IF Le(r.d1, r.d2)
  THEN [lambda |-> Vec2(r.d1, r.d2), vec |-> Mat4(r.c, Neg(r.s), r.s, r.c)]
  ELSE [lambda |-> Vec2(r.d2, r.d1), vec |-> Mat4(r.s, r.c, r.c, Neg(r.s))]

calcEigenvalues2D(d) == eigenOrder(eigensystem2S(d[2], d[0], d[3]))

\* 2^d_exp with d_max / 2^d_exp in [0.5, 1), for a finite d_max > 0.
RECURSIVE Pow2Above(_)
Pow2Above(x) ==
  IF Lt(x, Q(1, 2)) THEN Div(Pow2Above(Mul(x, R(2))), R(2))
  ELSE IF Le(R(1), x) THEN Mul(R(2), Pow2Above(Div(x, R(2))))
  ELSE R(1)

getScalingFactor(d_max) ==
  IF Gt(d_max, R(0))
  THEN (IF IsInf(d_max) THEN NaN ELSE Pow2Above(d_max))
  ELSE R(1)

\* if (d_max < fabs(x)) { d_max = fabs(x); }
maxAbs(d_max, x) == IF Lt(d_max, Fabs(x)) THEN Fabs(x) ELSE d_max

\* Lines 333-349 with a = fabs(d0*d3 - d1*d2): t = a / s once s is known
\* not to be 0.0, and the singular value asked for, multiplied by mult again.
singularPick(i, scale, s, a) ==
  IF s = R(0) THEN R(0)
  ELSE IF Gt(Div(a, s), s)
       THEN (IF i = 0 THEN Mul(Div(a, s), scale) ELSE Mul(s, scale))
       ELSE (IF i = 0 THEN Mul(s, scale) ELSE Mul(Div(a, s), scale))

\* s = d0*d2 + d1*d3 and t = 0.5*((d0+d2)*(d0-d2)+(d1-d3)*(d1+d3)) go into
\* s = sqrt(0.5*(d0*d0 + d1*d1 + d2*d2 + d3*d3) + sqrt(t*t + s*s)).
singularS(d, t, s) ==
  Sqrt(Add(Mul(Q(1, 2), Add(Add(Add(Mul(d[0], d[0]), Mul(d[1], d[1])), Mul(d[2], d[2])),
                            Mul(d[3], d[3]))),
           Sqrt(Add(Mul(t, t), Mul(s, s)))))

\* The matrix d already divided by the scaling factor mult.
singularScaled(i, scale, d) ==
  singularPick(i, scale,
               singularS(d,
                         Mul(Q(1, 2), Add(Mul(Add(d[0], d[2]), Sub(d[0], d[2])),
                                          Mul(Sub(d[1], d[3]), Add(d[1], d[3])))),
                         Add(Mul(d[0], d[2]), Mul(d[1], d[3]))),
               Fabs(Sub(Mul(d[0], d[3]), Mul(d[1], d[2]))))

singularScale(i, scale, d) == singularScaled(i, scale, [k \in 0..3 |-> Div(d[k], scale)])

calcSingularvalue2D(i, d) ==
  singularScale(i, getScalingFactor(maxAbs(maxAbs(maxAbs(Fabs(d[0]), d[1]), d[2]), d[3])), d)

\* A smooth step with its two saturation values exchanged.
smooth_step_01Swapped(xa, xe) ==
  LET y == IF IsZero(xa) THEN Div(Add(xe, R(1)), R(2))
           ELSE IF IsNaN(xa) THEN NaN
           ELSE <<Sgn(xa), 0>>
  IN  IF Lt(y, R(0)) THEN R(1)
      ELSE IF Gt(y, R(1)) THEN R(0)
      ELSE Mul(Mul(Sub(R(3), Mul(R(2), y)), y), y)

\* smooth_step_01(x, eps) with eps = 1e-12, which no 32-bit rational holds.
\* The argument is passed as x = xa + xe*eps.  Every finite nonzero xa of
\* the model has |xa| > 3*eps, so the sign of xa decides y = (x+eps)/(2*eps)
\* unless xa = 0, where y = (xe + 1)/2 exactly.
smooth_step_01(xa, xe) ==
  LET y == IF IsZero(xa) THEN Div(Add(xe, R(1)), R(2))
           ELSE IF IsNaN(xa) THEN NaN
           ELSE <<Sgn(xa), 0>>
  IN  IF Lt(y, R(0)) THEN R(0)
      ELSE IF Gt(y, R(1)) THEN R(1)
      ELSE Mul(Mul(Sub(R(3), Mul(R(2), y)), y), y)

\* ------------------------------------------------------------------------
\* Bounds of the model
\* ------------------------------------------------------------------------
\* Largest number of zones (nzones ranges over 1..MaxZones).
MaxZones == 2

\* Number of accelerator thread schedules explored (see Perm).
NumSchedules == 2

\* Number of times the caller runs a full update (see Invalidate).
MaxCalls == 2

\* ------------------------------------------------------------------------
\* Configuration supplied at construction and by the collaborators
\* ------------------------------------------------------------------------
gamma == Q(5, 3)

cfl == Q(1, 2)

h0 == R(1)

\* ir.GetWeights(): a uniform rule on the unit square.
weights(npts, q) == Q(1, npts)

\* quad_data.rho0DetJ0w with rho0 = 1 and det(J0) = 1: the point's weight.
rho0DetJ0w(npts, zq) == Q(1, npts)

\* quad_data.Jac0inv: the identity at every point.
Jac0inv(i) == IF i % 4 = 0 \/ i % 4 = 3 THEN R(1) ELSE R(0)

\* maps->B, a Q1D x D1D table b(q,d) = b_[q + Q1D*d] whose rows sum to 1.
\* Variant 0 is a selection table; variant 1 has negative entries, as a
\* nodal basis evaluated between its nodes has.
BTable(variant, Q1D, D1D) ==
  [i \in 0..(Q1D * D1D - 1) |->
     LET q == i % Q1D
         d == i \div Q1D
     IN  IF variant = 0
         THEN (IF d = q % D1D THEN R(1) ELSE R(0))
         ELSE (IF d = q % D1D THEN R(2) ELSE IF d = (q + 1) % D1D THEN R(-1) ELSE R(0))]

\* maps->G, the derivative table: a forward difference between two nodes.
GTable(Q1D, D1D) ==
  [i \in 0..(Q1D * D1D - 1) |->
     LET q == i % Q1D
         d == i \div Q1D
         a == q % (D1D - 1)
     IN  IF d = a + 1 THEN R(1) ELSE IF d = a THEN R(-1) ELSE R(0)]

\* ------------------------------------------------------------------------
\* State vectors S = (x, v, e): nodal coefficients per zone
\* ------------------------------------------------------------------------
StateVectors ==
  { [mesh |-> "square",     vel |-> "zero",     en |-> "e10"],
    [mesh |-> "square",     vel |-> "compress", en |-> "e10"],
    [mesh |-> "stretch",    vel |-> "expand",   en |-> "e40"],
    [mesh |-> "square",     vel |-> "shear",    en |-> "zero"],
    [mesh |-> "inverted",   vel |-> "compress", en |-> "varying"],
    [mesh |-> "degenerate", vel |-> "zero",     en |-> "e10"],
    [mesh |-> "shear",      vel |-> "zero",     en |-> "negative"] }

\* Position component c at node (dx, dy) of a zone with D1D nodes a side.
\* "stretch" is the square stretched by 2 one way and turned a quarter, so
\* that its Jacobian is not symmetric.
NodeX(m, D1D, dx, dy, c) ==
  LET last == D1D - 1
  IN  CASE m = "square" -> (IF c = 0 THEN dx ELSE dy)
        [] m = "stretch" -> (IF c = 0 THEN 0 - 2 * dy ELSE dx)
        [] m = "shear" -> (IF c = 0 THEN dx + dy ELSE dy)
        [] m = "inverted" -> (IF c = 0 THEN (IF dx = last THEN dx - 2 ELSE dx) ELSE dy)
        [] OTHER -> (IF c = 0 THEN (IF dx = last THEN dx - 1 ELSE dx) ELSE dy)

NodeV(v, dx, dy, c) ==
  CASE v = "zero" -> 0
    [] v = "compress" -> (IF c = 0 THEN -dx ELSE 0)
    [] v = "expand" -> (IF c = 0 THEN dx ELSE dy)
    [] OTHER -> (IF c = 0 THEN 24 * dy ELSE 7 * dy)

NodeE(en, dx, dy) ==
  CASE en = "zero" -> 0
    [] en = "e10" -> 10
    [] en = "e40" -> 40
    [] en = "negative" -> -10
    [] OTHER -> 10 * dx + 20 * dy

\* The H1 sub-field of S (position or velocity) in element-local
\* lexicographic order, x(dx,dy,c,e) = x_[dx + D1D*(dy + D1D*(c + 2*e))]:
\* what h1_ElemRestrict->Mult produces.
H1Local(sv, field, D1D, NE) ==
  [i \in 0..(D1D * D1D * 2 * NE - 1) |->
     LET dx == i % D1D
         dy == (i \div D1D) % D1D
         c == (i \div (D1D * D1D)) % 2
     IN  IF field = "x" THEN R(NodeX(sv.mesh, D1D, dx, dy, c))
         ELSE R(NodeV(sv.vel, dx, dy, c))]

\* erestrict->Mult(d_in, d_out): the element-local values go to the front of
\* d_out, whose size the constructor has fixed.
ElemRestrictMult(local, d_out) ==
  [i \in DOMAIN d_out |-> IF i \in DOMAIN local THEN local[i] ELSE d_out[i]]

\* A kernel's stores y_[0..n-1] into the output buffer d_out, whose size the
\* constructor has fixed from the run-time orders.
KernelWrite(y, d_out) ==
  [i \in DOMAIN d_out |-> IF i \in DOMAIN y THEN y[i] ELSE d_out[i]]

\* The L2 energy sub-field of S, x(dx,dy,0,e) = x_[dx + D1D*(dy + D1D*e)].
L2Energy(sv, D1D, NE) ==
  [i \in 0..(D1D * D1D * NE - 1) |-> R(NodeE(sv.en, i % D1D, (i \div D1D) % D1D))]

\* ------------------------------------------------------------------------
\* Basis evaluation kernels
\* ------------------------------------------------------------------------
RECURSIVE SumTo(_, _)
\* f[0] + ... + f[n-1], accumulated from 0.0 in index order.
SumTo(f, n) == IF n = 0 THEN R(0) ELSE Add(SumTo(f, n - 1), f[n - 1])

\* The second pass contracted with the row of qx instead of qy.
vecToQuad2DSameRow(D1D, Q1D, NE, b_, x_) ==
  LET DQ == [e \in 0..(NE - 1) |-> [dy \in 0..(D1D - 1) |-> [qx \in 0..(Q1D - 1) |->
               SumTo([dx \in 0..(D1D - 1) |->
                        Mul(b_[qx + Q1D * dx], x_[dx + D1D * (dy + D1D * e)])], D1D)]]]
  IN  [i \in 0..(Q1D * Q1D * NE - 1) |->
         LET qx == i % Q1D
             e == i \div (Q1D * Q1D)
         IN  SumTo([dy \in 0..(D1D - 1) |-> Mul(DQ[e][dy][qx], b_[qx + Q1D * dy])], D1D)]

\* vecToQuad2D<1, D1D, Q1D>: sum-factorized scalar interpolation,
\* x(dx,dy,0,e) = x_[dx + D1D*(dy + D1D*e)], y(qx,qy,0,e) = y_[qx + Q1D*(qy + Q1D*e)].
vecToQuad2D(D1D, Q1D, NE, b_, x_) ==
  LET DQ == [e \in 0..(NE - 1) |-> [dy \in 0..(D1D - 1) |-> [qx \in 0..(Q1D - 1) |->
               SumTo([dx \in 0..(D1D - 1) |->
                        Mul(b_[qx + Q1D * dx], x_[dx + D1D * (dy + D1D * e)])], D1D)]]]
  IN  [i \in 0..(Q1D * Q1D * NE - 1) |->
         LET qx == i % Q1D
             qy == (i \div Q1D) % Q1D
             e == i \div (Q1D * Q1D)
         IN  SumTo([dy \in 0..(D1D - 1) |-> Mul(DQ[e][dy][qx], b_[qy + Q1D * dy])], D1D)]

\* qGradVector2D<D1D, Q1D>: both partial derivatives of a 2-component field,
\* y(qx,qy,c,d,e) = y_[qx + Q1D*(qy + Q1D*(c + 2*(d + 2*e)))].
qGradVector2D(D1D, Q1D, NE, b_, g_, x_) ==
  LET X(dx, dy, c, e) == x_[dx + D1D * (dy + D1D * (c + 2 * e))]
      DQ0 == [e \in 0..(NE - 1) |-> [c \in 0..1 |-> [dy \in 0..(D1D - 1) |->
                [qx \in 0..(Q1D - 1) |->
                   SumTo([dx \in 0..(D1D - 1) |-> Mul(b_[qx + Q1D * dx], X(dx, dy, c, e))],
                         D1D)]]]]
      DQ1 == [e \in 0..(NE - 1) |-> [c \in 0..1 |-> [dy \in 0..(D1D - 1) |->
                [qx \in 0..(Q1D - 1) |->
                   SumTo([dx \in 0..(D1D - 1) |-> Mul(g_[qx + Q1D * dx], X(dx, dy, c, e))],
                         D1D)]]]]
  IN  [i \in 0..(Q1D * Q1D * 2 * 2 * NE - 1) |->
         LET qx == i % Q1D
             qy == (i \div Q1D) % Q1D
             c == (i \div (Q1D * Q1D)) % 2
             d == (i \div (Q1D * Q1D * 2)) % 2
             e == i \div (Q1D * Q1D * 4)
         IN  IF d = 0
             THEN SumTo([dy \in 0..(D1D - 1) |-> Mul(DQ1[e][c][dy][qx], b_[qy + Q1D * dy])], D1D)
             ELSE SumTo([dy \in 0..(D1D - 1) |-> Mul(DQ0[e][c][dy][qx], g_[qy + Q1D * dy])], D1D)]

\* ------------------------------------------------------------------------
\* Dispatch tables: key -> template parameters of the registered kernel
\* ------------------------------------------------------------------------
RECURSIVE BitOr(_, _)
BitOr(a, b) ==
  IF a = 0 THEN b
  ELSE IF b = 0 THEN a
  ELSE 2 * BitOr(a \div 2, b \div 2) + (IF a % 2 = 1 \/ b % 2 = 1 THEN 1 ELSE 0)

\* (vdim<<8)|(dofs1D<<4)|(quad1D)
ScalarId(vdim, dofs1D, q1d) == BitOr(BitOr(vdim * 256, dofs1D * 16), q1d)

\* (dofs1D<<4)|(quad1D)
GradId(dofs1D, q1d) == BitOr(dofs1D * 16, q1d)

\* {0x124, vecToQuad2D<1,2,4,8>}, {0x136, <1,3,6,4>}, {0x148, <1,4,8,2>}
ScalarTable ==
  { [id |-> 292, VDIM |-> 1, D1D |-> 2, Q1D |-> 4],
    [id |-> 310, VDIM |-> 1, D1D |-> 3, Q1D |-> 6],
    [id |-> 328, VDIM |-> 1, D1D |-> 4, Q1D |-> 8] }

\* {0x34, qGradVector2D<3,4>}, {0x46, <4,6>}, {0x58, <5,8>}
GradTable ==
  { [id |-> 52, D1D |-> 3, Q1D |-> 4],
    [id |-> 70, D1D |-> 4, Q1D |-> 6],
    [id |-> 88, D1D |-> 5, Q1D |-> 8] }

\* {0x4, QUpdate2D<4>}, {0x6, QUpdate2D<6>}, {0x8, QUpdate2D<8>}
QUpdateTable == { [id |-> 4, Q1D |-> 4], [id |-> 6, Q1D |-> 6], [id |-> 8, Q1D |-> 8] }

\* Whether call[id] is a kernel; operator[] of the map inserts a null
\* function pointer for a key that is not there.
Registered(table, id) == \E t \in table : t.id = id

\* call[id] for a registered key.
Lookup(table, id) == CHOOSE t \in table : t.id = id

\* ------------------------------------------------------------------------
\* QUpdate2D: the physics at one quadrature point (z, q) of the kernel body
\* ------------------------------------------------------------------------
\* zq = z * nqp + q, the point's slot of dt_est
DtIndex(npts, z, q) == z * npts + q

\* An offset that leaves the zone out.
StressOffsetNoZone(npts, nz, z, q, gd, vd) == q + npts * nz * (gd + vd * dim)

\* offset = zq + nqp*nzones*(gd+vd*dim), the point's four slots of stressJinvT
StressOffset(npts, nz, z, q, gd, vd) == DtIndex(npts, z, q) + npts * nz * (gd + vd * dim)

\* The 2x2 matrix of point (z, q) in a buffer laid out as
\* buf[q + nqp*dim*dim*z + k*nqp], k = 0..3 (lines 432-436, 451-457).
PointMatrix(buf, npts, z, q) == [k \in 0..3 |-> buf[q + npts * dim * dim * z + k * npts]]

\* The locals of the loop body are computed in the order of the code, each
\* group from the ones before it.  Lines 430-438: zq, weight, J, detJ,
\* min_detJ, the inverse (taken without looking at detJ), and e.
QGeometry(npts, z, q, min_in, J, e_quads) ==
  [zq |-> DtIndex(npts, z, q), weight |-> weights(npts, q), J |-> J,
   detJ |-> det2D(J), min_detJ |-> Fmin(min_in, det2D(J)),
   Jinv |-> calcInverse2D(J), e |-> Fmax(R(0), e_quads[DtIndex(npts, z, q)])]

\* Lines 440-446: rho, p, sound_speed and the pressure part of the stress.
QDensity(npts, L) ==
  L @@ [rho |-> Div(Mul(Div(R(1), L.weight), rho0DetJ0w(npts, L.zq)), L.detJ),
        sound_speed |-> Sqrt(Mul(Mul(gamma, Sub(gamma, R(1))), L.e))]

QPressure(L) == L @@ [p |-> Mul(Mul(Sub(gamma, R(1)), L.rho), L.e)]

\* Lines 451-466: the symmetrized velocity gradient and its eigen-system.
\* These locals and h, mu exist only under use_viscosity.
QGradient(dV, L) == L @@ [sgrad_v |-> symmetrize(mult(dV, L.Jinv))]

QEigen(L) == L @@ [eig |-> calcEigenvalues2D(L.sgrad_v)]

\* Lines 467-476: the length scale h along the compression direction.
QLength(L) ==
  L @@ [h |-> Div(Mul(h0, norml2(multV(mult(L.J, [k \in 0..3 |-> Jac0inv(L.zq * dim * dim + k)]),
                                       Vec2(L.eig.vec[0], L.eig.vec[1])))),
                  norml2(Vec2(L.eig.vec[0], L.eig.vec[1]))),
        mu |-> L.eig.lambda[0]]

\* Lines 477-483: visc_coeff = 2 rho h h |mu|, then the sound-speed term
\* weighted by 1 - smooth_step_01(mu - 2 eps, eps).
QViscosity(L) ==
  L @@ [visc_coeff |->
          Add(Mul(Mul(Mul(Mul(R(2), L.rho), L.h), L.h), Fabs(L.mu)),
              Mul(Mul(Mul(Mul(Q(1, 2), L.rho), L.h), L.sound_speed),
                  Sub(R(1), smooth_step_01(L.mu, R(-2)))))]

\* Lines 448-485: the use_viscosity block, or visc_coeff = 0.0 without it.
QViscous(visc, dV, L) ==
  IF visc THEN QViscosity(QLength(QEigen(QGradient(dV, L))))
  ELSE L @@ [visc_coeff |-> R(0)]

\* Lines 444-446, 484 and 490-491: the stress and h_min.
QStress(visc, h1order, L) ==
  L @@ [stress |-> IF visc
                   THEN add(L.visc_coeff, L.sgrad_v, Mat4(Neg(L.p), R(0), R(0), Neg(L.p)))
                   ELSE Mat4(Neg(L.p), R(0), R(0), Neg(L.p)),
        h_min |-> Div(calcSingularvalue2D(dim - 1, L.J), h1order)]

\* An inverse time scale made of the acoustic term alone.
QTimeStepAcoustic(L) ==
  L @@ [inv_dt |-> Mul(L.sound_speed, Div(R(1), L.h_min)),
        sJ |-> multABt(L.stress, L.Jinv)]

\* Lines 493-495 and 510-513: inv_dt and the stress in reference space.
QTimeStep(L) ==
  L @@ [inv_dt |-> Add(Mul(L.sound_speed, Div(R(1), L.h_min)),
                       Mul(Mul(Q(5, 2), L.visc_coeff),
                           Div(Mul(Div(R(1), L.h_min), Div(R(1), L.h_min)), L.rho))),
        sJ |-> multABt(L.stress, L.Jinv)]

QReference(L) == L @@ [stressJiT |-> [k \in 0..3 |-> Mul(L.sJ[k], Mul(L.weight, L.detJ))]]

\* Every local of the loop body at point (z, q), from the kernel's read-only
\* inputs and the lane's running min_detJ.
QPoint(npts, nz, z, q, min_in, visc, h1order, Jacobians, e_quads, grad_v_ext) ==
  QReference(QTimeStep(QStress(visc, h1order,
    QViscous(visc, PointMatrix(grad_v_ext, npts, z, q),
      QPressure(QDensity(npts,
        QGeometry(npts, z, q, min_in, PointMatrix(Jacobians, npts, z, q), e_quads)))))))

\* The dt_est update without the test of min_detJ.
DtUpdateNoDetTest(L, old) ==
  IF Gt(L.inv_dt, R(0)) THEN Fmin(old, Div(cfl, L.inv_dt)) ELSE old

\* A store of cfl / inv_dt that does not look at the previous entry.
DtUpdateOverwrite(L, old) ==
  IF Lt(L.min_detJ, R(0)) THEN R(0)
  ELSE IF Gt(L.inv_dt, R(0)) THEN Div(cfl, L.inv_dt)
  ELSE old

\* The point's new dt_est entry (lines 496-508) given its previous one.
DtUpdate(L, old) ==
  IF Lt(L.min_detJ, R(0)) THEN R(0)
  ELSE IF Gt(L.inv_dt, R(0)) THEN Fmin(old, Div(cfl, L.inv_dt))
  ELSE old

\* Whether the point stores into its dt_est slot at all.
DtWritten(L) == Lt(L.min_detJ, R(0)) \/ Gt(L.inv_dt, R(0))

\* A store that adds to what the slot holds.
StressWriteAccumulate(buf, npts, nz, z, q, sJ) ==
  [buf EXCEPT ![StressOffset(npts, nz, z, q, 0, 0)] = Add(@, sJ[0 + 0 * dim]),
              ![StressOffset(npts, nz, z, q, 1, 0)] = Add(@, sJ[0 + 1 * dim]),
              ![StressOffset(npts, nz, z, q, 0, 1)] = Add(@, sJ[1 + 0 * dim]),
              ![StressOffset(npts, nz, z, q, 1, 1)] = Add(@, sJ[1 + 1 * dim])]

\* d_stressJinvT[offset] = stressJiT[vd+gd*dim], vd the outer loop, gd the inner.
StressWrite(buf, npts, nz, z, q, sJ) ==
  [buf EXCEPT ![StressOffset(npts, nz, z, q, 0, 0)] = sJ[0 + 0 * dim],
              ![StressOffset(npts, nz, z, q, 1, 0)] = sJ[0 + 1 * dim],
              ![StressOffset(npts, nz, z, q, 0, 1)] = sJ[1 + 0 * dim],
              ![StressOffset(npts, nz, z, q, 1, 1)] = sJ[1 + 1 * dim]]

\* A reduction that takes the first entry.
VecFirst(v) == v[0]

\* Vector::Min(): a scan from v[0] that takes every smaller entry.  A NaN in
\* v[0] stays (nothing compares smaller than it), a NaN elsewhere is passed
\* over; the scan's result is then the least of the other entries.
VecMin(v) ==
  IF IsNaN(v[0]) THEN NaN
  ELSE CHOOSE m \in {v[i] : i \in DOMAIN v} \ {NaN} : \A i \in DOMAIN v : ~Lt(v[i], m)

\* ------------------------------------------------------------------------
\* State
\* ------------------------------------------------------------------------
VARIABLES
  l2dofs1D,             \* L2FESpace.GetFE(0)->GetOrder() + 1
  h1dofs1D,             \* H1FESpace.GetFE(0)->GetOrder() + 1
  quad1D,               \* points per direction of the integration rule ir
  nzones,
  use_viscosity,
  device,               \* "cpu": MFEM_FORALL_2D is a loop; "gpu": a thread per point
  sched,                \* which thread schedule the accelerator follows
  S,                    \* the state vector of the current call
  nqp1D,                \* tensors1D->LQshape1D.Width() of the current call
  quad_data_is_current, \* the staleness flag (TRUE = CURRENT)
  dt_est,               \* quad_data.dt_est
  stressJinvT,          \* quad_data.stressJinvT
  d_l2_e_quads_data,
  d_h1_v_local_in,
  d_h1_grad_x_data,
  d_h1_grad_v_data,
  d_dt_est,
  pc,                   \* where the call stands
  step,                 \* work units of QUpdate2D executed so far
  min_detJ,             \* the executing lane's min_detJ
  printed,              \* what printf has output
  outcome,              \* how the last call ended
  calls,                \* updates started so far
  dt_written,           \* dt_est slots stored by this run of QUpdate2D
  st_written,           \* stressJinvT slots stored by this run of QUpdate2D
  collision,            \* some slot was stored twice in this run
  l2_basis,             \* which table l2_maps->B is (see BTable)
  last_run              \* S and the outputs when the flag was last reset

config == <<l2dofs1D, h1dofs1D, quad1D, nzones, use_viscosity, device, sched, l2_basis>>

scratch == <<d_l2_e_quads_data, d_h1_v_local_in, d_h1_grad_x_data, d_h1_grad_v_data, d_dt_est>>

ghost == <<dt_written, st_written, collision>>

vars == <<config, S, nqp1D, quad_data_is_current, dt_est, stressJinvT, scratch,
          pc, step, min_detJ, printed, outcome, calls, ghost, last_run>>

\* nqp = ir.GetNPoints() of the 2-D tensor-product rule
nqp == quad1D * quad1D

Zeros(n) == [i \in 0..(n - 1) |-> R(0)]

\* (order_e + 1, order_v + 1, quadrature points per direction)
OrderConfigs ==
  { [l2 |-> 2, h1 |-> 3, q |-> 4],
    [l2 |-> 3, h1 |-> 4, q |-> 6],
    [l2 |-> 4, h1 |-> 5, q |-> 8],
    [l2 |-> 1, h1 |-> 3, q |-> 4],
    [l2 |-> 2, h1 |-> 2, q |-> 4] }

Devices == {"cpu", "gpu"}

\* The state after QUpdate::QUpdate and the allocation of quad_data.  Zone
\* counts and accelerator schedules vary at the lowest order; the higher
\* orders run on the host on one zone.
ConstructOn(orders) ==
  /\ \E oc \in orders : l2dofs1D = oc.l2 /\ h1dofs1D = oc.h1 /\ quad1D = oc.q
  /\ nzones \in 1..MaxZones
  /\ use_viscosity \in BOOLEAN
  /\ device \in Devices
  /\ sched \in 0..(NumSchedules - 1)
  /\ (device = "cpu" => sched = 0)
  /\ (quad1D > 4 => nzones = 1 /\ device = "cpu")
  /\ S \in StateVectors
  /\ nqp1D = 0
  /\ quad_data_is_current \in BOOLEAN
  /\ dt_est = Inf
  /\ stressJinvT = Zeros(nqp * nzones * dim * dim)
  /\ d_l2_e_quads_data = Zeros(nzones * nqp)
  /\ d_h1_v_local_in = Zeros(2 * nqp * nzones)
  /\ d_h1_grad_x_data = Zeros(2 * 2 * nqp * nzones)
  /\ d_h1_grad_v_data = Zeros(2 * 2 * nqp * nzones)
  /\ d_dt_est = Zeros(nzones * nqp)
  /\ pc = "idle"
  /\ step = 0
  /\ min_detJ = Inf
  /\ printed = <<>>
  /\ outcome = "none"
  /\ calls = 0
  /\ dt_written = {}
  /\ st_written = {}
  /\ collision = FALSE
  /\ last_run = [valid |-> FALSE, S |-> S, dt_est |-> dt_est, stressJinvT |-> stressJinvT]

Construct == ConstructOn(OrderConfigs)

\* l2_maps holds the selection table.
Init == Construct /\ l2_basis = 0

\* ------------------------------------------------------------------------
\* QUpdate::UpdateQuadratureData2D
\* ------------------------------------------------------------------------
\* An entry without the early return of line 801.
CallNoReturn ==
  /\ pc = "idle"
  /\ calls < MaxCalls
  /\ \E w \in {quad1D, quad1D + 1} : nqp1D' = w
  /\ pc' = "Dof2QuadScalar"
  /\ outcome' = "running"
  /\ calls' = calls + 1
  /\ UNCHANGED <<config, last_run, S, quad_data_is_current, dt_est, stressJinvT, scratch,
                 step, min_detJ, printed, ghost>>

\* An entry that treats a CURRENT flag as a failed assertion.
CallAsserts ==
  /\ pc = "idle"
  /\ IF quad_data_is_current
     THEN /\ outcome' = "abort"
          /\ pc' = "crashed"
          /\ UNCHANGED <<nqp1D, calls>>
     ELSE /\ calls < MaxCalls
          /\ \E w \in {quad1D, quad1D + 1} : nqp1D' = w
          /\ pc' = "Dof2QuadScalar"
          /\ outcome' = "running"
          /\ calls' = calls + 1
  /\ UNCHANGED <<config, last_run, S, quad_data_is_current, dt_est, stressJinvT, scratch,
                 step, min_detJ, printed, ghost>>

\* Entry: `if (quad_data_is_current) { return; }`, else read nqp1D and go on.
Call ==
  /\ pc = "idle"
  /\ IF quad_data_is_current
     THEN /\ outcome' = "noop"
          /\ UNCHANGED <<nqp1D, pc, calls>>
     ELSE /\ calls < MaxCalls
          /\ \E w \in {quad1D, quad1D + 1} : nqp1D' = w
          /\ pc' = "Dof2QuadScalar"
          /\ outcome' = "running"
          /\ calls' = calls + 1
  /\ UNCHANGED <<config, last_run, S, quad_data_is_current, dt_est, stressJinvT, scratch,
                 step, min_detJ, printed, ghost>>

\* A null entry called without the printf before it.
CrashSilent(who, id) ==
  /\ printed' = printed
  /\ pc' = "crashed"
  /\ outcome' = "abort"

\* `if (!call[id]) { printf(... id); fflush(0); } call[id](...)` on a key the
\* table does not hold: operator[] yields a null function pointer, the key is
\* printed and flushed, and the call jumps to address 0, which kills the
\* process before any kernel code runs.
Crash(who, id) ==
  /\ printed' = Append(printed, <<who, id>>)
  /\ pc' = "crashed"
  /\ outcome' = "abort"

\* Dof2QuadScalar(l2_ElemRestrict, L2FESpace, l2_maps, ir, d_e, d_l2_e_quads_data)
Dof2QuadScalar ==
  /\ pc = "Dof2QuadScalar"
  /\ LET id == ScalarId(1, l2dofs1D, quad1D)
         k == Lookup(ScalarTable, id)
     IN  IF ~Registered(ScalarTable, id)
         THEN /\ Crash("Dof2QuadScalar", id)
              /\ UNCHANGED d_l2_e_quads_data
         ELSE /\ \E y \in {vecToQuad2D(k.D1D, k.Q1D, nzones,
                                        BTable(l2_basis, quad1D, l2dofs1D),
                                        L2Energy(S, l2dofs1D, nzones))} :
                   d_l2_e_quads_data' = KernelWrite(y, d_l2_e_quads_data)
              /\ pc' = "Dof2QuadGradX"
              /\ UNCHANGED <<printed, outcome>>
  /\ UNCHANGED <<config, last_run, S, nqp1D, quad_data_is_current, dt_est, stressJinvT,
                 d_h1_v_local_in, d_h1_grad_x_data, d_h1_grad_v_data, d_dt_est,
                 step, min_detJ, calls, ghost>>

\* Dof2QuadGrad(h1_ElemRestrict, H1FESpace, h1_maps, ir, d_x, d_h1_v_local_in,
\*              d_h1_grad_x_data)
Dof2QuadGradX ==
  /\ pc = "Dof2QuadGradX"
  /\ d_h1_v_local_in' = ElemRestrictMult(H1Local(S, "x", h1dofs1D, nzones), d_h1_v_local_in)
  /\ LET id == GradId(h1dofs1D, quad1D)
         k == Lookup(GradTable, id)
     IN  IF ~Registered(GradTable, id)
         THEN /\ Crash("Dof2QuadGrad", id)
              /\ UNCHANGED d_h1_grad_x_data
         ELSE /\ \E y \in {qGradVector2D(k.D1D, k.Q1D, nzones,
                                          BTable(0, quad1D, h1dofs1D),
                                          GTable(quad1D, h1dofs1D), d_h1_v_local_in')} :
                   d_h1_grad_x_data' = KernelWrite(y, d_h1_grad_x_data)
              /\ pc' = "Dof2QuadGradV"
              /\ UNCHANGED <<printed, outcome>>
  /\ UNCHANGED <<config, last_run, S, nqp1D, quad_data_is_current, dt_est, stressJinvT,
                 d_l2_e_quads_data, d_h1_grad_v_data, d_dt_est,
                 step, min_detJ, calls, ghost>>

\* Dof2QuadGrad(..., d_v, d_h1_v_local_in, d_h1_grad_v_data)
Dof2QuadGradV ==
  /\ pc = "Dof2QuadGradV"
  /\ d_h1_v_local_in' = ElemRestrictMult(H1Local(S, "v", h1dofs1D, nzones), d_h1_v_local_in)
  /\ LET id == GradId(h1dofs1D, quad1D)
         k == Lookup(GradTable, id)
     IN  IF ~Registered(GradTable, id)
         THEN /\ Crash("Dof2QuadGrad", id)
              /\ UNCHANGED d_h1_grad_v_data
         ELSE /\ \E y \in {qGradVector2D(k.D1D, k.Q1D, nzones,
                                          BTable(0, quad1D, h1dofs1D),
                                          GTable(quad1D, h1dofs1D), d_h1_v_local_in')} :
                   d_h1_grad_v_data' = KernelWrite(y, d_h1_grad_v_data)
              /\ pc' = "QUpdateLookup"
              /\ UNCHANGED <<printed, outcome>>
  /\ UNCHANGED <<config, last_run, S, nqp1D, quad_data_is_current, dt_est, stressJinvT,
                 d_l2_e_quads_data, d_h1_grad_x_data, d_dt_est,
                 step, min_detJ, calls, ghost>>

\* A lookup step that starts every slot from infinity instead of from the
\* previous estimate.
QUpdateLookupResets ==
  /\ pc = "QUpdateLookup"
  /\ d_dt_est' = [i \in DOMAIN d_dt_est |-> Inf]
  /\ LET id == nqp1D
         k == Lookup(QUpdateTable, id)
     IN  IF ~Registered(QUpdateTable, id)
         THEN /\ Crash("UpdateQuadratureData", id)
              /\ UNCHANGED <<step, min_detJ, ghost>>
         ELSE /\ pc' = "QUpdate2D"
              /\ step' = 0
              /\ min_detJ' = Inf
              /\ dt_written' = {}
              /\ st_written' = {}
              /\ collision' = FALSE
              /\ UNCHANGED <<printed, outcome>>
  /\ UNCHANGED <<config, last_run, S, nqp1D, quad_data_is_current, dt_est, stressJinvT,
                 d_l2_e_quads_data, d_h1_v_local_in, d_h1_grad_x_data,
                 d_h1_grad_v_data, calls>>

\* `d_dt_est = quad_data.dt_est;` then the lookup of qupdate2q[nqp1D].
QUpdateLookup ==
  /\ pc = "QUpdateLookup"
  /\ d_dt_est' = [i \in DOMAIN d_dt_est |-> dt_est]
  /\ LET id == nqp1D
         k == Lookup(QUpdateTable, id)
     IN  IF ~Registered(QUpdateTable, id)
         THEN /\ Crash("UpdateQuadratureData", id)
              /\ UNCHANGED <<step, min_detJ, ghost>>
         ELSE /\ pc' = "QUpdate2D"
              /\ step' = 0
              /\ min_detJ' = Inf
              /\ dt_written' = {}
              /\ st_written' = {}
              /\ collision' = FALSE
              /\ UNCHANGED <<printed, outcome>>
  /\ UNCHANGED <<config, last_run, S, nqp1D, quad_data_is_current, dt_est, stressJinvT,
                 d_l2_e_quads_data, d_h1_v_local_in, d_h1_grad_x_data,
                 d_h1_grad_v_data, calls>>

\* The i-th work unit of a schedule over n units: a permutation of 0..n-1
\* (every stride is coprime to the unit counts 16*k, 36*k, 64*k, k <= 4).
Perm(s, i, n) ==
  LET stride == CASE s = 0 -> 1 [] s = 1 -> n - 1 [] OTHER -> 6 * s - 7
  IN  (stride * i) % n

\* The (z, q) executed at position i by QUpdate2D<Q1D>.  On the host the
\* zones run in order and, within a zone, qx is the outer loop and qy the
\* inner one, all on one min_detJ; on the accelerator every (qx, qy) is a
\* thread with a min_detJ of its own.
UnitAt(Q1D, i) ==
  IF device = "cpu"
  THEN LET z == i \div (Q1D * Q1D)
           r == i % (Q1D * Q1D)
       IN  [z |-> z, q |-> (r \div Q1D) + (r % Q1D) * Q1D, first |-> r = 0]
  ELSE LET u == Perm(sched, i, Q1D * Q1D * nzones)
       IN  [z |-> u \div (Q1D * Q1D), q |-> u % (Q1D * Q1D), first |-> TRUE]

\* The part of the state the kernel body works on.
KernelState ==
  [min_detJ |-> min_detJ, d_dt_est |-> d_dt_est, stressJinvT |-> stressJinvT,
   dt_written |-> dt_written, st_written |-> st_written, collision |-> collision]

\* The locals of unit u in kernel state st.
UnitLocals(st, u) ==
  QPoint(nqp, nzones, u.z, u.q, IF u.first THEN Inf ELSE st.min_detJ,
         use_viscosity, R(h1dofs1D - 1),
         d_h1_grad_x_data, d_l2_e_quads_data, d_h1_grad_v_data)

\* One (z, q) iteration of the loop body, lines 430-519, on kernel state st.
ApplyUnit(st, u, L) ==
  LET zq == DtIndex(nqp, u.z, u.q)
      offs == {StressOffset(nqp, nzones, u.z, u.q, gd, vd) : gd \in 0..1, vd \in 0..1}
  IN  [st EXCEPT
         !.min_detJ = L.min_detJ,
         !.d_dt_est = [@ EXCEPT ![zq] = DtUpdate(L, @)],
         !.stressJinvT = StressWrite(@, nqp, nzones, u.z, u.q, L.stressJiT),
         !.dt_written = IF DtWritten(L) THEN @ \cup {zq} ELSE @,
         !.st_written = @ \cup offs,
         !.collision = \/ @
                       \/ DtWritten(L) /\ zq \in st.dt_written
                       \/ offs \cap st.st_written # {}
                       \/ Cardinality(offs) < dim * dim]

RECURSIVE RunUnits(_, _, _, _)
\* Units i, i+1, ..., i+n-1 of the schedule, one after the other.
RunUnits(Q1D, st, i, n) ==
  IF n = 0 THEN st
  ELSE LET u == UnitAt(Q1D, i)
       IN  RunUnits(Q1D, ApplyUnit(st, u, UnitLocals(st, u)), i + 1, n - 1)

\* A kernel that returns after its first zone.
KernelDoneEarly(done) == done >= nqp

\* MFEM_FORALL_2D(z, nzones, Q1D, Q1D, 1, ...) has run all its units.
KernelDone(done) == done = nqp * nzones

\* How many units one step of the kernel executes: on the host one pass of
\* the outer qx loop (Q1D iterations of the inner qy loop), on the
\* accelerator one thread.
UnitsPerStep(Q1D) == IF device = "cpu" THEN Q1D ELSE 1

\* QUpdate2D<Q1D>: one step of the kernel launched through qupdate2q[id].
QUpdate2D ==
  /\ pc = "QUpdate2D"
  /\ ~KernelDone(step)
  /\ LET Q1D == Lookup(QUpdateTable, nqp1D).Q1D
         n == UnitsPerStep(Q1D)
     IN  /\ \E st \in {RunUnits(Q1D, KernelState, step, n)} :
              /\ min_detJ' = st.min_detJ
              /\ d_dt_est' = st.d_dt_est
              /\ stressJinvT' = st.stressJinvT
              /\ dt_written' = st.dt_written
              /\ st_written' = st.st_written
              /\ collision' = st.collision
         /\ step' = step + n
         /\ pc' = IF KernelDone(step + n) THEN "Min" ELSE "QUpdate2D"
  /\ UNCHANGED <<config, last_run, S, nqp1D, quad_data_is_current, dt_est,
                 d_l2_e_quads_data, d_h1_v_local_in, d_h1_grad_x_data,
                 d_h1_grad_v_data, printed, outcome, calls>>

\* quad_data.dt_est = d_dt_est.Min();
ReduceMin ==
  /\ pc = "Min"
  /\ dt_est' = VecMin(d_dt_est)
  /\ pc' = "SetCurrent"
  /\ UNCHANGED <<config, last_run, S, nqp1D, quad_data_is_current, stressJinvT, scratch,
                 step, min_detJ, printed, outcome, calls, ghost>>

\* quad_data_is_current = true; and the return.
SetCurrent ==
  /\ pc = "SetCurrent"
  /\ quad_data_is_current' = TRUE
  /\ pc' = "idle"
  /\ outcome' = "done"
  /\ UNCHANGED <<config, last_run, S, nqp1D, dt_est, stressJinvT, scratch,
                 step, min_detJ, printed, calls, ghost>>

\* The time integrator has changed the state vector (or kept it) and marks
\* the quadrature data stale.
Invalidate ==
  /\ pc = "idle"
  /\ quad_data_is_current
  /\ calls < MaxCalls
  /\ \E sv \in StateVectors : S' = sv
  /\ quad_data_is_current' = FALSE
  /\ last_run' = [valid |-> calls >= 1, S |-> S, dt_est |-> dt_est, stressJinvT |-> stressJinvT]
  /\ UNCHANGED <<config, nqp1D, dt_est, stressJinvT, scratch,
                 pc, step, min_detJ, printed, outcome, calls, ghost>>

\* The steps of one call of UpdateQuadratureData2D.
NextCall ==
  \/ Call
  \/ Dof2QuadScalar
  \/ Dof2QuadGradX
  \/ Dof2QuadGradV
  \/ QUpdateLookup
  \/ QUpdate2D
  \/ ReduceMin
  \/ SetCurrent

Next ==
  \/ NextCall
  \/ Invalidate

\* One construction and the calls on one state vector.
Spec == Init /\ [][NextCall]_vars

\* Repeated updates at the lowest registered order on the host, the time
\* integrator invalidating the data in between.
InitRerun ==
  /\ Init
  /\ quad1D = 4
  /\ l2dofs1D = 2
  /\ h1dofs1D = 3
  /\ nzones = 1
  /\ ~quad_data_is_current

SpecRerun == InitRerun /\ [][Next]_vars

\* The scalar basis evaluation alone, for both tables, on the host.
InitBasis == Construct /\ l2_basis \in {0, 1} /\ device = "cpu"

NextBasis ==
  \/ Call
  \/ Dof2QuadScalar

SpecBasis == InitBasis /\ [][NextBasis]_vars

\* Orders beyond the registered ones: quadrature rules of 22 and 36 points
\* a side next to the lowest registered order.
KeyConfigs ==
  { [l2 |-> 2, h1 |-> 3, q |-> 4],
    [l2 |-> 3, h1 |-> 4, q |-> 22],
    [l2 |-> 2, h1 |-> 3, q |-> 36] }

InitKeys == ConstructOn(KeyConfigs) /\ l2_basis = 0 /\ nzones = 1

\* One update on each of these orders.
SpecKeys == InitKeys /\ [][NextCall]_vars

\* ------------------------------------------------------------------------
\* Properties
\* ------------------------------------------------------------------------
\* C1: a call that finds the flag CURRENT returns at once: the step it takes
\* starts no kernel (the call is back at idle, reported as a no-op) and
\* leaves quad_data.dt_est, quad_data.stressJinvT, every scratch buffer and
\* the flag as they were, whatever S is.
C1_NoOpWhenCurrent ==
  [][(pc = "idle" /\ quad_data_is_current)
       => /\ pc' = "idle"
          /\ outcome' = "noop"
          /\ UNCHANGED <<dt_est, stressJinvT, scratch, quad_data_is_current, S>>]_vars

\* A no-op call made after a completed update, on the data of that update.
C1_Witness ==
  /\ outcome = "noop"
  /\ calls = 1
  /\ quad_data_is_current
  /\ IsFin(dt_est)

\* The stages of a call between its entry and its return.
Updating == {"Dof2QuadScalar", "Dof2QuadGradX", "Dof2QuadGradV", "QUpdateLookup",
             "QUpdate2D", "Min", "SetCurrent"}

\* Every stressJinvT slot of every point of every zone
AllStressSlots == 0..(nqp * nzones * dim * dim - 1)

\* C2: in an update started with the flag STALE, the flag is CURRENT only
\* once the kernel has run every point of every zone (all their stressJinvT
\* slots stored) and quad_data.dt_est is the minimum of the per-point
\* estimates; while the update is under way, and after it has aborted on an
\* unregistered key, the flag is STALE.
C2_CurrentOnlyAfterReduce ==
  /\ (calls >= 1 /\ quad_data_is_current)
       => /\ pc = "idle"
          /\ outcome \in {"done", "noop"}
          /\ step = nqp * nzones
          /\ st_written = AllStressSlots
          /\ dt_est = VecMin(d_dt_est)
  /\ (pc \in Updating \cup {"crashed"}) => ~quad_data_is_current

\* A completed update of two zones on the accelerator.
C2_Witness ==
  /\ calls = 1
  /\ quad_data_is_current
  /\ outcome = "done"
  /\ nzones = 2
  /\ device = "gpu"

\* The key each lookup uses in this configuration
KeyOf(who) ==
  CASE who = "Dof2QuadScalar" -> ScalarId(1, l2dofs1D, quad1D)
    [] who = "Dof2QuadGrad" -> GradId(h1dofs1D, quad1D)
    [] OTHER -> nqp1D

TableOf(who) ==
  CASE who = "Dof2QuadScalar" -> ScalarTable
    [] who = "Dof2QuadGrad" -> GradTable
    [] OTHER -> QUpdateTable

\* The lookups passed by the time the call is at stage p
LookedUp(p) ==
  CASE p = "Dof2QuadScalar" -> {}
    [] p = "Dof2QuadGradX" -> {"Dof2QuadScalar"}
    [] p \in {"Dof2QuadGradV", "QUpdateLookup"} -> {"Dof2QuadScalar", "Dof2QuadGrad"}
    [] OTHER -> {"Dof2QuadScalar", "Dof2QuadGrad", "UpdateQuadratureData"}

\* C3: a lookup of an unregistered key is never passed over (a call gets
\* beyond a lookup only with a registered key), and when it happens the key
\* is what has been output, the call has ended in an abort, and the lookup's
\* kernel has written nothing: the output buffer of the failed lookup is as
\* it was at construction (for the physics table: no unit of QUpdate2D ran,
\* stressJinvT and quad_data.dt_est are untouched).
C3_UnregisteredKeyReported ==
  /\ (pc \in Updating \/ (pc = "idle" /\ outcome = "done"))
       => \A who \in LookedUp(pc) : Registered(TableOf(who), KeyOf(who))
  /\ pc = "crashed"
       => /\ outcome = "abort"
          /\ Len(printed) = 1
          /\ printed[1][1] \in {"Dof2QuadScalar", "Dof2QuadGrad", "UpdateQuadratureData"}
          /\ printed[1][2] = KeyOf(printed[1][1])
          /\ ~Registered(TableOf(printed[1][1]), printed[1][2])
          /\ printed[1][1] = "Dof2QuadScalar"
               => d_l2_e_quads_data = Zeros(nzones * nqp)
          /\ printed[1][1] = "Dof2QuadGrad"
               => d_h1_grad_x_data = Zeros(2 * 2 * nqp * nzones)
          /\ printed[1][1] = "UpdateQuadratureData"
               => /\ stressJinvT = Zeros(nqp * nzones * dim * dim)
                  /\ st_written = {}
                  /\ dt_est = Inf

\* The physics table is asked for a key it does not hold after both basis
\* kernels have run.
C3_Witness ==
  /\ pc = "crashed"
  /\ Len(printed) = 1
  /\ printed[1] = <<"UpdateQuadratureData", quad1D + 1>>
  /\ d_h1_grad_x_data # Zeros(2 * 2 * nqp * nzones)

\* The kernel has been launched on the scratch buffers of this state.
KernelLaunched == pc \in {"QUpdate2D", "Min", "SetCurrent"} \/ (pc = "idle" /\ calls >= 1)

\* The update has run to its end.
UpdateComplete == pc = "idle" /\ calls >= 1 /\ outcome \in {"done", "noop"}

\* detJ of point (z, q), from the Jacobians the kernel reads
DetAt(z, q) == det2D(PointMatrix(d_h1_grad_x_data, nqp, z, q))

\* The loop body of point (z, q) has run.
Executed(z, q) == StressOffset(nqp, nzones, z, q, 0, 0) \in st_written

Zones == 0..(nzones - 1)

Points == 0..(nqp - 1)

\* C4: once the loop body of a point (z, q) with a negative Jacobian
\* determinant has run, dt_est[z*nqp + q] is exactly 0, and stays so, for
\* every state vector, with and without viscosity, on the host and under
\* every schedule of the accelerator.
C4_NegativeDetZeroesPoint ==
  KernelLaunched =>
    \A z \in Zones : \A q \in Points :
      (Executed(z, q) /\ Lt(DetAt(z, q), R(0))) => d_dt_est[DtIndex(nqp, z, q)] = R(0)

\* On the accelerator a point with negative determinant has been zeroed
\* while another point of the same zone, with positive determinant, has a
\* positive estimate.
C4_Witness ==
  /\ pc = "Min"
  /\ device = "gpu"
  /\ \E q \in Points : Lt(DetAt(0, q), R(0)) /\ d_dt_est[DtIndex(nqp, 0, q)] = R(0)
  /\ \E q \in Points : Gt(DetAt(0, q), R(0)) /\ Gt(d_dt_est[DtIndex(nqp, 0, q)], R(0))

\* C5 (as amended): if the Jacobian determinant is negative at some point of
\* some zone, quad_data.dt_est is 0 when the update has completed; and the
\* update aborts only on an unregistered dispatch key, never on account of
\* a determinant.
C5_NegativeDetZeroesEstimate ==
  /\ (UpdateComplete /\ \E z \in Zones : \E q \in Points : Lt(DetAt(z, q), R(0)))
       => dt_est = R(0)
  /\ pc = "crashed"
       => \E who \in {"Dof2QuadScalar", "Dof2QuadGrad", "UpdateQuadratureData"} :
            ~Registered(TableOf(who), KeyOf(who))

\* C5 as stated: a non-positive determinant (negative or exactly zero) at
\* some point makes quad_data.dt_est 0 when the update has completed.
C5_Original ==
  (UpdateComplete /\ \E z \in Zones : \E q \in Points : Le(DetAt(z, q), R(0)))
    => dt_est = R(0)

\* A completed update of an inverted mesh: some determinants are negative,
\* some positive, and the estimate is 0.
C5_Witness ==
  /\ UpdateComplete
  /\ outcome = "done"
  /\ dt_est = R(0)
  /\ \E q \in Points : Lt(DetAt(0, q), R(0))
  /\ \E q \in Points : Gt(DetAt(0, q), R(0))

\* C6 (as amended): a call that finds the flag CURRENT is no failure: it
\* returns normally, with nothing output and no abort, and it does not count
\* as an update.
C6_CurrentReturnsNormally ==
  [][(pc = "idle" /\ quad_data_is_current)
       => /\ outcome' = "noop"
          /\ pc' # "crashed"
          /\ printed' = printed
          /\ calls' = calls]_vars

\* C6 as stated: a call that finds the flag CURRENT ends in a fatal error.
C6_Original ==
  [][(pc = "idle" /\ quad_data_is_current) => (outcome' = "abort" /\ pc' = "crashed")]_vars

\* The first call on a dataset handed over as current has returned.
C6_Witness ==
  /\ outcome = "noop"
  /\ calls = 0
  /\ pc = "idle"
  /\ printed = <<>>

\* The slots of unit (z, q): its dt_est index and its stressJinvT offsets
DtSlots == {DtIndex(nqp, z, q) : z \in Zones, q \in Points}

StressSlots(z, q) == {StressOffset(nqp, nzones, z, q, gd, vd) : gd \in 0..1, vd \in 0..1}

\* C7: with nqp = Q1D*Q1D, the units (z, q) own disjoint slots: the
\* nzones*nqp dt_est indices are pairwise different and inside d_dt_est, the
\* four stressJinvT offsets of a unit are different from each other and from
\* those of every other unit and inside stressJinvT; and in whatever order
\* the units run, no slot is stored twice during a kernel run.
C7_DisjointSlots ==
  /\ (pc = "QUpdate2D" /\ step = 0)
       => /\ nqp = nqp1D * nqp1D
          /\ Cardinality(DtSlots) = nzones * nqp
          /\ DtSlots \subseteq DOMAIN d_dt_est
          /\ \A z \in Zones : \A q \in Points :
                /\ Cardinality(StressSlots(z, q)) = dim * dim
                /\ StressSlots(z, q) \subseteq DOMAIN stressJinvT
                /\ \A z2 \in Zones : \A q2 \in Points :
                      <<z, q>> # <<z2, q2>> => StressSlots(z, q) \cap StressSlots(z2, q2) = {}
  /\ KernelLaunched
       => /\ ~collision
          /\ dt_written \subseteq DOMAIN d_dt_est
          /\ st_written \subseteq DOMAIN stressJinvT
          /\ Cardinality(st_written) = dim * dim * Cardinality({u \in DtSlots : u \in st_written})

\* The accelerator has run every unit of two zones in the reversed schedule.
C7_Witness ==
  /\ pc = "Min"
  /\ device = "gpu"
  /\ sched = 1
  /\ nzones = 2
  /\ st_written = AllStressSlots
  /\ ~collision

\* C8: when an update has run to completion, the flag has been reset with
\* the state vector left as it was, and the update has run to completion
\* again, quad_data.dt_est and every entry of quad_data.stressJinvT are what
\* they were after the first of the two runs.
C8_RerunReproduces ==
  (UpdateComplete /\ last_run.valid /\ last_run.S = S)
    => /\ dt_est = last_run.dt_est
       /\ stressJinvT = last_run.stressJinvT

\* A second run on an unchanged state vector with viscous stress has
\* completed, with a positive estimate.
C8_Witness ==
  /\ UpdateComplete
  /\ outcome = "done"
  /\ calls = 2
  /\ last_run.valid
  /\ last_run.S = S
  /\ S.vel = "compress"
  /\ use_viscosity
  /\ Gt(dt_est, R(0))
  /\ IsFin(dt_est)

\* sum over dx, dy of B[qx][dx] * B[qy][dy] * x(dx, dy) in zone e, with
\* B[q][d] = b_[q + Q1D*d] and x(dx,dy) = x_[dx + D1D*(dy + D1D*e)]
FullContraction(D1D, Q1D, b_, x_, qx, qy, e) ==
  SumTo([dx \in 0..(D1D - 1) |->
           SumTo([dy \in 0..(D1D - 1) |->
                    Mul(Mul(b_[qx + Q1D * dx], b_[qy + Q1D * dy]),
                        x_[dx + D1D * (dy + D1D * e)])], D1D)], D1D)

\* Each row of the Q1D x D1D table sums to 1.
RowsSumToOne(D1D, Q1D, b_) ==
  \A q \in 0..(Q1D - 1) : SumTo([d \in 0..(D1D - 1) |-> b_[q + Q1D * d]], D1D) = R(1)

\* All nodal coefficients of zone e are the same.
ZoneConstant(D1D, x_, e) ==
  \A i \in 0..(D1D * D1D - 1) : x_[i + D1D * D1D * e] = x_[D1D * D1D * e]

\* The output y_ of vecToQuad2D on the table b_ and field x_ is the full
\* contraction, and the constant of a constant zone under unit row sums.
BasisReproduces(D1D, Q1D, NE, b_, x_, y_) ==
  \A e \in 0..(NE - 1) : \A qx \in 0..(Q1D - 1) : \A qy \in 0..(Q1D - 1) :
    /\ y_[qx + Q1D * (qy + Q1D * e)] = FullContraction(D1D, Q1D, b_, x_, qx, qy, e)
    /\ (RowsSumToOne(D1D, Q1D, b_) /\ ZoneConstant(D1D, x_, e))
         => y_[qx + Q1D * (qy + Q1D * e)] = x_[D1D * D1D * e]

\* C9: for the registered scalar orders (2,4), (3,6), (4,8), the output of
\* vecToQuad2D at every point (qx, qy) of every zone is the full tensor
\* contraction of B, B and the nodal coefficients; and when the rows of B
\* sum to 1 and the zone's coefficients all equal k, it is k.
C9_ScalarBasisEvaluation ==
  pc = "Dof2QuadGradX"
    => /\ <<l2dofs1D, quad1D>> \in {<<2, 4>>, <<3, 6>>, <<4, 8>>}
       /\ BasisReproduces(l2dofs1D, quad1D, nzones, BTable(l2_basis, quad1D, l2dofs1D),
                           L2Energy(S, l2dofs1D, nzones), d_l2_e_quads_data)

\* The highest order on the table with negative entries has reproduced the
\* constant 40 at all 64 points.
C9_Witness ==
  /\ pc = "Dof2QuadGradX"
  /\ l2_basis = 1
  /\ quad1D = 8
  /\ S.en = "e40"
  /\ \A i \in DOMAIN d_l2_e_quads_data : d_l2_e_quads_data[i] = R(40)

\* The locals of point (z, q) on the buffers the kernel is launched with
LocalsAt(z, q) ==
  QPoint(nqp, nzones, z, q, Inf, use_viscosity, R(h1dofs1D - 1),
         d_h1_grad_x_data, d_l2_e_quads_data, d_h1_grad_v_data)

\* 2 rho h h |mu| at mu = -1
QuadraticTerm(L) == Mul(Mul(Mul(R(2), L.rho), L.h), L.h)

\* 0.5 rho h sound_speed
SoundSpeedTerm(L) == Mul(Mul(Mul(Q(1, 2), L.rho), L.h), L.sound_speed)

ViscAsAmended(L) == L.mu = R(-1) => L.visc_coeff = Add(QuadraticTerm(L), SoundSpeedTerm(L))

ViscAsStated(L) == L.mu = R(-1) => L.visc_coeff = QuadraticTerm(L)

\* C10 (as amended): with viscosity enabled, at a point whose symmetrized
\* velocity gradient has smallest eigenvalue mu = -1 the smooth step is 0
\* and the sound-speed term enters in full:
\* visc_coeff = 2 rho h^2 + 0.5 rho h sound_speed.
C10_SoundSpeedTermUnderCompression ==
  (pc = "QUpdate2D" /\ step = 0 /\ use_viscosity)
    => \A z \in Zones : \A q \in Points : ViscAsAmended(LocalsAt(z, q))

\* C10 as stated: at mu = -1 the coefficient is 2 rho h^2, with nothing
\* from 0.5 rho h sound_speed.
C10_Original ==
  (pc = "QUpdate2D" /\ step = 0 /\ use_viscosity)
    => \A z \in Zones : \A q \in Points : ViscAsStated(LocalsAt(z, q))

CompressedPoint(L) ==
  /\ L.mu = R(-1)
  /\ L.rho = R(1)
  /\ L.h = R(1)
  /\ L.sound_speed = Q(10, 3)
  /\ L.visc_coeff = Q(11, 3)

\* A unit square compressed at rate 1 with e = 10: rho = 1, h = 1,
\* sound_speed = 10/3 and visc_coeff = 2 + 5/3.
C10_Witness ==
  /\ pc = "QUpdate2D"
  /\ step = 0
  /\ use_viscosity
  /\ CompressedPoint(LocalsAt(0, 0))

\* Positive determinant and positive pressure at the point
PressurePoint(L) == Gt(L.detJ, R(0)) /\ Gt(L.p, R(0))

\* J^-T in the storage of J: the inverse with entries 1 and 2 exchanged
InverseTranspose(J) ==
  Mat4(Div(J[3], det2D(J)), Div(Neg(J[2]), det2D(J)),
       Div(Neg(J[1]), det2D(J)), Div(J[0], det2D(J)))

\* -p on the diagonal, 0 off it, and -p * weight * det(J) * J^-T in the
\* four slots of the point
PressureStress(z, q, L) ==
  /\ L.stress = Mat4(Neg(L.p), R(0), R(0), Neg(L.p))
  /\ \A gd \in 0..1 : \A vd \in 0..1 :
       stressJinvT[StressOffset(nqp, nzones, z, q, gd, vd)]
         = Mul(Mul(Mul(Neg(L.p), L.weight), L.detJ), InverseTranspose(L.J)[vd + gd * dim])

\* CFL * h_min / c at the point
AcousticStep(L) == Div(Mul(cfl, L.h_min), L.sound_speed)

\* An update without viscosity has completed on a mesh with positive
\* determinant and positive pressure at every point.
PressureOnlyUpdate ==
  /\ UpdateComplete
  /\ quad_data_is_current
  /\ ~use_viscosity
  /\ \A z \in Zones : \A q \in Points : PressurePoint(LocalsAt(z, q))

\* d is the least of CFL * h_min / c over the points.
LeastAcousticStep(d) ==
  /\ \A z \in Zones : \A q \in Points : Le(d, AcousticStep(LocalsAt(z, q)))
  /\ \E z \in Zones : \E q \in Points : d = AcousticStep(LocalsAt(z, q))

\* C11 (as amended): without viscosity, with positive determinant and
\* p > 0 at every point, the stress at every point is -p on the diagonal
\* and 0 off it, the stored stressJinvT is -p * weight * det(J) * J^-T, and
\* dt_est after the update is the smaller of its value before the update
\* and the least CFL * h_min / c over the points.
C11_PressureOnlyStressAndStep ==
  PressureOnlyUpdate
    => /\ \A z \in Zones : \A q \in Points : PressureStress(z, q, LocalsAt(z, q))
       /\ \A z \in Zones : \A q \in Points : Le(dt_est, AcousticStep(LocalsAt(z, q)))
       /\ Le(dt_est, last_run.dt_est)
       /\ dt_est = last_run.dt_est \/ LeastAcousticStep(dt_est)

\* C11 as stated: dt_est after the update is CFL * h_min / c (of the
\* point where that is least).
C11_Original == PressureOnlyUpdate => LeastAcousticStep(dt_est)

\* A second update, on the unit square at rest with e = 10, has kept the
\* smaller estimate of the first and stored -p * weight * det(J) * J^-T.
C11_Witness ==
  /\ PressureOnlyUpdate
  /\ calls = 2
  /\ outcome = "done"
  /\ S.mesh = "square"
  /\ S.en = "e10"
  /\ dt_est = last_run.dt_est
  /\ ~LeastAcousticStep(dt_est)
  /\ PressureStress(0, 0, LocalsAt(0, 0))

\* The least Jacobian determinant over all points of zone z
ZoneMinDet(z) ==
  CHOOSE m \in {DetAt(z, q) : q \in Points} : \A q \in Points : ~Lt(DetAt(z, q), m)

\* The entry of point (z, q) after the kernel if the test of min_detJ saw the
\* minimum over the whole zone
ZoneWideEntry(z, q) ==
  DtUpdate(QPoint(nqp, nzones, z, q, ZoneMinDet(z), use_viscosity, R(h1dofs1D - 1),
                  d_h1_grad_x_data, d_l2_e_quads_data, d_h1_grad_v_data), dt_est)

\* C12: the minimum determinant is tracked zone-wide by an order-independent
\* reduction: when the kernel has run, every point of a zone that has a point
\* of negative determinant holds 0 in its dt_est slot, and every slot holds
\* what the zone-wide minimum gives, whatever the order and the lanes.
C12_ZoneWideMinimum ==
  pc = "Min"
    => \A z \in Zones : \A q \in Points :
         /\ Lt(ZoneMinDet(z), R(0)) => d_dt_est[DtIndex(nqp, z, q)] = R(0)
         /\ d_dt_est[DtIndex(nqp, z, q)] = ZoneWideEntry(z, q)

\* The position of point q in the host loop of a zone: qx outer, qy inner,
\* with q = qx + qy * Q1D
HostPosition(q) == (q % quad1D) * quad1D + (q \div quad1D)

\* The points whose determinant the lane has folded into min_detJ when it
\* tests it at point q: on the host those up to q in loop order, on the
\* accelerator q alone
TrackedPoints(q) ==
  IF device = "cpu" THEN {r \in Points : HostPosition(r) <= HostPosition(q)} ELSE {q}

\* The tracked minimum determinant at point (z, q) is not negative.
TrackedMinNotNegative(z, q) == \A r \in TrackedPoints(q) : ~Lt(DetAt(z, r), R(0))

\* c / h_min + 2.5 * visc / (rho * h_min^2)
InverseTimeScale(L) ==
  Add(Div(L.sound_speed, L.h_min),
      Div(Mul(Q(5, 2), L.visc_coeff), Mul(L.rho, Mul(L.h_min, L.h_min))))

\* The entry old of a point has become new by the rule of the inverse time scale.
StepEntry(inv_dt, old, new) ==
  /\ Gt(inv_dt, R(0)) => new = Fmin(old, Div(cfl, inv_dt))
  /\ Le(inv_dt, R(0)) => new = old

\* C13: when the kernel has run, a point whose tracked minimum determinant
\* is not negative holds min(previous estimate, CFL / inv_dt) if
\* inv_dt = c/h_min + 2.5*visc/(rho*h_min^2) > 0, and the previous estimate
\* itself if inv_dt <= 0.
C13_StepEntryByInverseTimeScale ==
  pc = "Min"
    => \A z \in Zones : \A q \in Points :
         TrackedMinNotNegative(z, q)
           => StepEntry(InverseTimeScale(LocalsAt(z, q)), dt_est,
                        d_dt_est[DtIndex(nqp, z, q)])

\* Point q of zone 0 has kept a finite previous estimate at inv_dt = 0.
KeptEntry(q) ==
  /\ TrackedMinNotNegative(0, q)
  /\ InverseTimeScale(LocalsAt(0, q)) = R(0)
  /\ d_dt_est[q] = dt_est

\* Point q of zone 0 has taken CFL / inv_dt, smaller than the previous
\* estimate.
LoweredEntry(q) ==
  /\ TrackedMinNotNegative(0, q)
  /\ Gt(InverseTimeScale(LocalsAt(0, q)), R(0))
  /\ d_dt_est[q] = Div(cfl, InverseTimeScale(LocalsAt(0, q)))
  /\ Lt(d_dt_est[q], dt_est)

\* In a second update, from a finite positive estimate, one point has kept
\* the estimate and another has lowered it.
C13_Witness ==
  /\ pc = "Min"
  /\ calls = 2
  /\ IsFin(dt_est)
  /\ Gt(dt_est, R(0))
  /\ \E q \in Points : KeptEntry(q)
  /\ \E q \in Points : LoweredEntry(q)

\* adjugate(J) / det(J), in the storage of J
AdjugateOverDet(J) ==
  Mat4(Div(J[3], det2D(J)), Div(Neg(J[1]), det2D(J)),
       Div(Neg(J[2]), det2D(J)), Div(J[0], det2D(J)))

\* The four slots of point (z, q) hold stress * inverse(J)^T * weight * det(J).
InverseUsed(z, q, L) ==
  \A gd \in 0..1 : \A vd \in 0..1 :
    stressJinvT[StressOffset(nqp, nzones, z, q, gd, vd)]
      = Mul(multABt(L.stress, AdjugateOverDet(L.J))[vd + gd * dim], Mul(L.weight, L.detJ))

\* Some slot of point (z, q) holds an infinity or a NaN.
NotFiniteStored(z, q) ==
  \E gd \in 0..1 : \E vd \in 0..1 :
    ~IsFin(stressJinvT[StressOffset(nqp, nzones, z, q, gd, vd)])

\* C14 (as amended): calcInverse2D is called at every point the kernel
\* executes, whatever the determinant: at a point with det(J) < 0 the stored
\* stressJinvT is made with the inverse of J, and at a point with
\* det(J) = 0 the division by zero leaves a non-finite entry in it.
C14_InverseTakenUnguarded ==
  \A z \in Zones : \A q \in Points :
    Executed(z, q)
      => /\ Lt(DetAt(z, q), R(0)) => InverseUsed(z, q, LocalsAt(z, q))
         /\ DetAt(z, q) = R(0) => NotFiniteStored(z, q)

\* C14 as stated: wherever the loop body has run, and so has called
\* calcInverse2D on the point's J (line 438, before any branch), det(J) > 0.
C14_Original ==
  \A z \in Zones : \A q \in Points : Executed(z, q) => Gt(DetAt(z, q), R(0))

\* The kernel has run over the inverted mesh and a point of negative
\* determinant holds a finite non-zero stress entry made with the inverse.
C14_Witness ==
  /\ pc = "Min"
  /\ S.mesh = "inverted"
  /\ \E q \in Points :
       /\ Lt(DetAt(0, q), R(0))
       /\ InverseUsed(0, q, LocalsAt(0, q))
       /\ IsFin(stressJinvT[StressOffset(nqp, nzones, 0, q, 0, 0)])
       /\ stressJinvT[StressOffset(nqp, nzones, 0, q, 0, 0)] # R(0)

\* The scalar kernel has been looked up and called.
ScalarKernelCalled ==
  pc \in {"Dof2QuadGradX", "Dof2QuadGradV", "QUpdateLookup", "QUpdate2D", "Min", "SetCurrent"}

\* The gradient kernel has been looked up and called.
GradKernelCalled ==
  pc \in {"Dof2QuadGradV", "QUpdateLookup", "QUpdate2D", "Min", "SetCurrent"}

\* C15: a key that is found in a table belongs to the kernel compiled for
\* the run-time orders: when Dof2QuadScalar has called a kernel, its
\* template parameters are (1, dofs1D, quad1D) of the L2 space, and when
\* Dof2QuadGrad has called one, they are (dofs1D, quad1D) of the H1 space.
C15_KeySelectsOwnKernel ==
  /\ ScalarKernelCalled
       => /\ Lookup(ScalarTable, ScalarId(1, l2dofs1D, quad1D)).VDIM = 1
          /\ Lookup(ScalarTable, ScalarId(1, l2dofs1D, quad1D)).D1D = l2dofs1D
          /\ Lookup(ScalarTable, ScalarId(1, l2dofs1D, quad1D)).Q1D = quad1D
  /\ GradKernelCalled
       => /\ Lookup(GradTable, GradId(h1dofs1D, quad1D)).D1D = h1dofs1D
          /\ Lookup(GradTable, GradId(h1dofs1D, quad1D)).Q1D = quad1D

\* C16: over any sequence of updates, on any state vectors and with the
\* flag STALE or CURRENT, no step makes quad_data.dt_est larger, and once it
\* is 0 it stays 0.
C16_EstimateNeverIncreases ==
  [][Le(dt_est', dt_est) /\ (dt_est = R(0) => dt_est' = R(0))]_vars

\* A second update, on a changed state vector, has lowered a finite
\* positive estimate.
C16_Witness ==
  /\ UpdateComplete
  /\ quad_data_is_current
  /\ calls = 2
  /\ outcome = "done"
  /\ last_run.S # S
  /\ IsFin(last_run.dt_est)
  /\ Lt(dt_est, last_run.dt_est)
  /\ Gt(dt_est, R(0))
====
